---- MODULE Spec2Model ----
(***************************************************************************)
(* Model of library/aws_ecs_taskdefinition.py: the ecs_taskdefinition      *)
(* Ansible module.  One run of main() is one invocation; the ECS service   *)
(* is the remote store the invocation looks up and mutates.                *)
(*                                                                         *)
(* Encoding of Python values:                                              *)
(*   None          is the empty tuple  << >>                               *)
(*   a value v     is the one-element tuple <<v>> wherever None may occur  *)
(*   a string      is a tuple of tokens, so that  a + ":" + str(n)  is a   *)
(*                 real concatenation (the empty string is << >>)          *)
(*   a list        is a sequence                                           *)
(*   a dict        is a function whose DOMAIN is its set of keys           *)
(***************************************************************************)
EXTENDS Integers, Sequences, FiniteSets, TLC

VARIABLES
    store,              \* the remote store: task definitions in registration order
    latestActiveOnly,   \* how the store resolves a bare family name (fixed per behaviour)
    inv,                \* the last invocation of main(): inputs, locals, calls, outcome
    prev,               \* the invocation before it, kept when inv repeats it (else None)
    runs,               \* invocations run so far
    m                   \* an application of merge_lists: arguments and result

vars == <<store, latestActiveOnly, inv, prev, runs, m>>

----------------------------------------------------------------------------
(* Bounds of the model *)

MaxInvocations == 2 \* invocations of main() in one behaviour
MaxItems == 2       \* length of the items list given to merge_lists
MaxUpdates == 2     \* length of the updates list given to merge_lists

----------------------------------------------------------------------------
(* Python values *)

None == << >>

Some(v) == <<v>>

\* bool(x) of a string or list that may be None
Truthy(o) == o # None /\ Len(o[1]) > 0

\* bool(x) of an int that may be None
TruthyInt(o) == o # None /\ o[1] # 0

\* bool(x) of a dict that may be None
TruthyDict(o) == o # None /\ DOMAIN o[1] # {}

\* faulty variant: no fallback, the left operand is taken even when it is empty
Or_Left(a, b) == a

\* a or b  on strings / lists that may be None
Or(a, b) == IF Truthy(a) THEN a ELSE b

\* module.params.get(k): the values of params are kept as None or Some(v)
Get(d, k) == IF k \in DOMAIN d THEN d[k] ELSE None

\* d.get(k) of a dict whose values are never None
GetField(d, k) == IF k \in DOMAIN d THEN Some(d[k]) ELSE None

\* str(n) of a small non-negative int, as a one-token string
Str(n) == << <<"0", "1", "2", "3", "4", "5", "6", "7", "8", "9">>[n + 1] >>

\* dict(item, **update): item overlaid with the fields of update
DictOverlay(item, update) ==
    [f \in DOMAIN item \cup DOMAIN update |->
        IF f \in DOMAIN update THEN update[f] ELSE item[f]]

----------------------------------------------------------------------------
(* merge_lists *)

\* faulty variant: the last matching record is taken instead of the first
RECURSIVE NextMatch_Last(_, _, _)
NextMatch_Last(seq, key, v) ==
    IF seq = << >> THEN None
    ELSE LET later == NextMatch_Last(Tail(seq), key, v)
         IN  IF later # None THEN later
             ELSE IF Head(seq)[key] = v THEN Some(Head(seq)) ELSE None

\* next((x for x in seq if x[key] == v), None)
RECURSIVE NextMatch(_, _, _)
NextMatch(seq, key, v) ==
    IF seq = << >> THEN None
    ELSE IF Head(seq)[key] = v THEN Some(Head(seq))
    ELSE NextMatch(Tail(seq), key, v)

\* faulty variant: the overlay is taken the wrong way round, the item's fields win
RECURSIVE UpdateExisting_ItemWins(_, _, _, _)
UpdateExisting_ItemWins(items, updates, key, result) ==
    IF items = << >> THEN result
    ELSE LET item == Head(items)
             update == NextMatch(updates, key, item[key])
         IN  UpdateExisting_ItemWins(Tail(items), updates, key,
                IF TruthyDict(update)
                THEN Append(result, DictOverlay(update[1], item))
                ELSE Append(result, item))

\* faulty variant: an updated item is kept next to its overlay
RECURSIVE UpdateExisting_KeepBoth(_, _, _, _)
UpdateExisting_KeepBoth(items, updates, key, result) ==
    IF items = << >> THEN result
    ELSE LET item == Head(items)
             update == NextMatch(updates, key, item[key])
         IN  UpdateExisting_KeepBoth(Tail(items), updates, key,
                IF TruthyDict(update)
                THEN Append(Append(result, item), DictOverlay(item, update[1]))
                ELSE Append(result, item))

\* first loop: one record per item, overlaid with its update when there is one
RECURSIVE UpdateExisting(_, _, _, _)
UpdateExisting(items, updates, key, result) ==
    IF items = << >> THEN result
    ELSE LET item == Head(items)
             update == NextMatch(updates, key, item[key])
         IN  UpdateExisting(Tail(items), updates, key,
                IF TruthyDict(update)
                THEN Append(result, DictOverlay(item, update[1]))
                ELSE Append(result, item))

\* faulty variant: an update is appended only if no record with its key was
\* appended before it
RECURSIVE CreateNew_Dedupe(_, _, _, _)
CreateNew_Dedupe(items, updates, key, result) ==
    IF updates = << >> THEN result
    ELSE LET update == Head(updates)
             existing == NextMatch(result, key, update[key])
         IN  CreateNew_Dedupe(items, Tail(updates), key,
                IF ~TruthyDict(existing) THEN Append(result, update) ELSE result)

\* faulty variant: every update is appended, matched by an item or not
RECURSIVE CreateNew_AppendAll(_, _, _, _)
CreateNew_AppendAll(items, updates, key, result) ==
    IF updates = << >> THEN result
    ELSE CreateNew_AppendAll(items, Tail(updates), key, Append(result, Head(updates)))

\* second loop: append the updates no item matches
RECURSIVE CreateNew(_, _, _, _)
CreateNew(items, updates, key, result) ==
    IF updates = << >> THEN result
    ELSE LET update == Head(updates)
             existing == NextMatch(items, key, update[key])
         IN  CreateNew(items, Tail(updates), key,
                IF ~TruthyDict(existing) THEN Append(result, update) ELSE result)

\* faulty variant: the updates replace the items instead of merging into them
merge_lists_Replace(items, updates, key) == updates

merge_lists(items, updates, key) ==
    CreateNew(items, updates, key, UpdateExisting(items, updates, key, << >>))

----------------------------------------------------------------------------
(* The remote store (the ECS service behind the boto3 client).  A task      *)
(* definition is a dict with family, revision, containerDefinitions,        *)
(* volumes and, normally, status.  Strings that are only compared (status,  *)
(* intent, field values) are TLA+ strings.                                   *)

\* taskDefinitionArn of a definition
Arn(d) == <<"arn:">> \o d.family \o <<":">> \o Str(d.revision)

\* the family:revision name of a definition
FamilyRevision(d) == d.family \o <<":">> \o Str(d.revision)

IsActive(d) == "status" \in DOMAIN d /\ d.status = "ACTIVE"

\* positions of the definitions an ARN or a family:revision name denotes
Named(S, id) == {i \in DOMAIN S : id = Arn(S[i]) \/ id = FamilyRevision(S[i])}

\* positions of the definitions a bare family name may resolve to
InFamily(S, lao, id) ==
    {i \in DOMAIN S : S[i].family = id /\ (lao => IsActive(S[i]))}

\* position of the definition an identifier resolves to, 0 when there is none
Lookup(S, lao, id) ==
    IF Named(S, id) # {} THEN CHOOSE i \in Named(S, id) : TRUE
    ELSE IF InFamily(S, lao, id) # {}
         THEN CHOOSE i \in InFamily(S, lao, id) :
                \A j \in InFamily(S, lao, id) : S[j].revision <= S[i].revision
         ELSE 0

\* revision the store assigns to the next registration in a family
NextRevision(S, family) ==
    LET used == {S[i].revision : i \in {j \in DOMAIN S : S[j].family = family}}
    IN  IF used = {} THEN 1
        ELSE 1 + CHOOSE r \in used : \A q \in used : q <= r

\* ecs.describe_task_definition(taskDefinition=task_name)
describe_task_definition(S, lao, taskDefinition) ==
    IF taskDefinition = None
    THEN [raises |-> "ParamValidationError", taskDefinition |-> None]
    ELSE IF Lookup(S, lao, taskDefinition[1]) = 0
    THEN [raises |-> "ClientError", taskDefinition |-> None]
    ELSE [raises |-> "", taskDefinition |-> Some(S[Lookup(S, lao, taskDefinition[1])])]

\* ecs.register_task_definition(family=, containerDefinitions=, volumes=)
register_task_definition(S, family, containerDefinitions, volumes) ==
    IF family = None \/ containerDefinitions = None \/ volumes = None
    THEN [raises |-> "ParamValidationError", taskDefinition |-> None, store |-> S]
    ELSE LET d == [family |-> family[1],
                   revision |-> NextRevision(S, family[1]),
                   status |-> "ACTIVE",
                   containerDefinitions |-> containerDefinitions[1],
                   volumes |-> volumes[1]]
         IN  [raises |-> "", taskDefinition |-> Some(d), store |-> Append(S, d)]

\* ecs.deregister_task_definition(taskDefinition=taskArn)
deregister_task_definition(S, taskDefinition) ==
    IF taskDefinition = None
    THEN [raises |-> "ParamValidationError", taskDefinition |-> None, store |-> S]
    ELSE IF Named(S, taskDefinition[1]) = {}
    THEN [raises |-> "ClientError", taskDefinition |-> None, store |-> S]
    ELSE LET i == CHOOSE j \in Named(S, taskDefinition[1]) : TRUE
             d == DictOverlay(S[i], [status |-> "INACTIVE"])
         IN  [raises |-> "", taskDefinition |-> Some(d), store |-> [S EXCEPT ![i] = d]]

----------------------------------------------------------------------------
(* EcsTaskManager *)

\* describe_task: a ClientError means "no such definition"
describe_task(S, lao, task_name) ==
    LET response == describe_task_definition(S, lao, task_name)
    IN  IF response.raises = "ClientError"
        THEN [raises |-> "", value |-> None]
        ELSE [raises |-> response.raises, value |-> response.taskDefinition]

register_task(S, family, container_definitions, volumes) ==
    LET response == register_task_definition(S, family, container_definitions, volumes)
    IN  [raises |-> response.raises, value |-> response.taskDefinition,
         store |-> response.store]

deregister_task(S, taskArn) ==
    LET response == deregister_task_definition(S, taskArn)
    IN  [raises |-> response.raises, value |-> response.taskDefinition,
         store |-> response.store]

----------------------------------------------------------------------------
(* main(): one invocation of the module *)

\* a remote call as it is issued: operation and arguments
Call(op, args) == [op |-> op, args |-> args]

\* how an invocation ends.  outcome is "exit_json" (a result is reported),
\* "fail_json" (msg names the failure) or "exception" (a remote call raised
\* and nothing caught it).  results is None unless outcome is "exit_json".
Run(params, check_mode, S, task, existing, calls, outcome, msg, results, S2) ==
    [params |-> params, check_mode |-> check_mode, before |-> S,
     task_to_describe |-> task, existing |-> existing, calls |-> calls,
     outcome |-> outcome, msg |-> msg, results |-> results, store |-> S2]

\* the results dict: changed and, when set, taskdefinition
Results(changed, taskdefinition) ==
    Some([changed |-> changed, taskdefinition |-> taskdefinition])

\* faulty variant: `absent` accepts a family without a revision as its target
ResolveTarget_FamilyAlone(params) ==
    CASE params.state = "absent" ->
            IF "arn" \in DOMAIN params /\ params.arn # None
            THEN [msg |-> "", task_to_describe |-> params.arn]
            ELSE IF /\ "family" \in DOMAIN params /\ params.family # None
                    /\ "revision" \in DOMAIN params /\ params.revision # None
            THEN [msg |-> "",
                  task_to_describe |->
                      Some(params.family[1] \o <<":">> \o Str(params.revision[1]))]
            ELSE IF "family" \in DOMAIN params /\ params.family # None
            THEN [msg |-> "", task_to_describe |-> params.family]
            ELSE [msg |-> "MissingIdentifier", task_to_describe |-> None]
      [] params.state = "present" ->
            IF ~("family" \in DOMAIN params)
            THEN [msg |-> "MissingRequiredField", task_to_describe |-> None]
            ELSE IF ~("containers" \in DOMAIN params)
            THEN [msg |-> "MissingRequiredField", task_to_describe |-> None]
            ELSE [msg |-> "", task_to_describe |-> params.family]
      [] params.state = "update" ->
            LET task == Or(Get(params, "arn"), Get(params, "family"))
            IN  IF ~Truthy(task)
                THEN [msg |-> "MissingIdentifier", task_to_describe |-> None]
                ELSE IF TruthyInt(Get(params, "revision"))
                THEN [msg |-> "",
                      task_to_describe |->
                          Some(task[1] \o <<":">> \o Str(params.revision[1]))]
                ELSE [msg |-> "", task_to_describe |-> task]

\* lines 184-208: the identifier to look up, or the failure raised instead
\* (msg "" when there is none)
ResolveTarget(params) ==
    CASE params.state = "absent" ->
            IF "arn" \in DOMAIN params /\ params.arn # None
            THEN [msg |-> "", task_to_describe |-> params.arn]
            ELSE IF /\ "family" \in DOMAIN params /\ params.family # None
                    /\ "revision" \in DOMAIN params /\ params.revision # None
            THEN [msg |-> "",
                  task_to_describe |->
                      Some(params.family[1] \o <<":">> \o Str(params.revision[1]))]
            ELSE [msg |-> "MissingIdentifier", task_to_describe |-> None]
      [] params.state = "present" ->
            IF ~("family" \in DOMAIN params)
            THEN [msg |-> "MissingRequiredField", task_to_describe |-> None]
            ELSE IF ~("containers" \in DOMAIN params)
            THEN [msg |-> "MissingRequiredField", task_to_describe |-> None]
            ELSE [msg |-> "", task_to_describe |-> params.family]
      [] params.state = "update" ->
            LET task == Or(Get(params, "arn"), Get(params, "family"))
            IN  IF ~Truthy(task)
                THEN [msg |-> "MissingIdentifier", task_to_describe |-> None]
                ELSE IF TruthyInt(Get(params, "revision"))
                THEN [msg |-> "",
                      task_to_describe |->
                          Some(task[1] \o <<":">> \o Str(params.revision[1]))]
                ELSE [msg |-> "", task_to_describe |-> task]

\* faulty variant: any definition found counts, whatever its status
ExistsActive_AnyStatus(existing) == TruthyDict(existing)

\* faulty variant: the status is compared with the wrong spelling
ExistsActive_Lowercase(existing) ==
    TruthyDict(existing) /\ "status" \in DOMAIN existing[1]
                         /\ existing[1].status = "active"

\* line 215: existing and 'status' in existing and existing['status']=="ACTIVE"
ExistsActive(existing) ==
    TruthyDict(existing) /\ "status" \in DOMAIN existing[1]
                         /\ existing[1].status = "ACTIVE"

\* faulty variant: the change is reported but nothing is registered
DecidePresent_NoRegister(params, check_mode, S, task, existing, calls) ==
    IF ExistsActive(existing)
    THEN Run(params, check_mode, S, task, existing, calls,
             "exit_json", "", Results(FALSE, existing), S)
    ELSE Run(params, check_mode, S, task, existing, calls,
             "exit_json", "", Results(TRUE, None), S)

\* lines 214-227
DecidePresent(params, check_mode, S, task, existing, calls) ==
    IF ExistsActive(existing)
    THEN Run(params, check_mode, S, task, existing, calls,
             "exit_json", "", Results(FALSE, existing), S)
    ELSE IF ~check_mode
    THEN LET volumes0 == IF "volumes" \in DOMAIN params
                         THEN params.volumes ELSE Some(<< >>)
             volumes == IF volumes0 = None THEN Some(<< >>) ELSE volumes0
             r == register_task(S, params.family, params.containers, volumes)
             calls2 == Append(calls,
                         Call("register", <<params.family, params.containers, volumes>>))
         IN  IF r.raises # ""
             THEN Run(params, check_mode, S, task, existing, calls2,
                      "exception", r.raises, None, r.store)
             ELSE Run(params, check_mode, S, task, existing, calls2,
                      "exit_json", "", Results(TRUE, r.value), r.store)
    ELSE Run(params, check_mode, S, task, existing, calls,
             "exit_json", "", Results(TRUE, None), S)

\* faulty variant: the revision looked up is retired when its successor is
\* registered
DecideUpdate_RetireOld(params, check_mode, S, task, existing, calls) ==
    IF ~check_mode
    THEN IF ~TruthyDict(existing)
         THEN Run(params, check_mode, S, task, existing, calls,
                  "fail_json", "NoExistingDefinition", None, S)
         ELSE LET updated_containers ==
                      IF Truthy(Get(params, "containers"))
                      THEN merge_lists(existing[1].containerDefinitions,
                                       params.containers[1], "name")
                      ELSE << >>
                  updated_volumes ==
                      IF Truthy(Get(params, "volumes"))
                      THEN merge_lists(existing[1].volumes, params.volumes[1], "name")
                      ELSE << >>
                  family == Or(Get(params, "family"), GetField(existing[1], "family"))
                  containers == Or(Some(updated_containers),
                                   GetField(existing[1], "containerDefinitions"))
                  volumes == Or(Some(updated_volumes), GetField(existing[1], "volumes"))
                  retired == deregister_task(S, Some(Arn(existing[1])))
                  r == register_task(retired.store, family, containers, volumes)
                  calls2 == Append(calls,
                              Call("register", <<family, containers, volumes>>))
              IN  IF r.raises # ""
                  THEN Run(params, check_mode, S, task, existing, calls2,
                           "exception", r.raises, None, r.store)
                  ELSE Run(params, check_mode, S, task, existing, calls2,
                           "exit_json", "", Results(TRUE, r.value), r.store)
    ELSE Run(params, check_mode, S, task, existing, calls,
             "exit_json", "", Results(TRUE, None), S)

\* faulty variant: nothing is registered when the merge changes nothing
DecideUpdate_SkipUnchanged(params, check_mode, S, task, existing, calls) ==
    IF ~check_mode
    THEN IF ~TruthyDict(existing)
         THEN Run(params, check_mode, S, task, existing, calls,
                  "fail_json", "NoExistingDefinition", None, S)
         ELSE LET updated_containers ==
                      IF Truthy(Get(params, "containers"))
                      THEN merge_lists(existing[1].containerDefinitions,
                                       params.containers[1], "name")
                      ELSE << >>
                  updated_volumes ==
                      IF Truthy(Get(params, "volumes"))
                      THEN merge_lists(existing[1].volumes, params.volumes[1], "name")
                      ELSE << >>
                  family == Or(Get(params, "family"), GetField(existing[1], "family"))
                  containers == Or(Some(updated_containers),
                                   GetField(existing[1], "containerDefinitions"))
                  volumes == Or(Some(updated_volumes), GetField(existing[1], "volumes"))
                  r == register_task(S, family, containers, volumes)
                  calls2 == Append(calls,
                              Call("register", <<family, containers, volumes>>))
              IN  IF /\ containers = GetField(existing[1], "containerDefinitions")
                     /\ volumes = GetField(existing[1], "volumes")
                  THEN Run(params, check_mode, S, task, existing, calls,
                           "exit_json", "", Results(FALSE, existing), S)
                  ELSE IF r.raises # ""
                  THEN Run(params, check_mode, S, task, existing, calls2,
                           "exception", r.raises, None, r.store)
                  ELSE Run(params, check_mode, S, task, existing, calls2,
                           "exit_json", "", Results(TRUE, r.value), r.store)
    ELSE Run(params, check_mode, S, task, existing, calls,
             "exit_json", "", Results(TRUE, None), S)

\* lines 229-243
DecideUpdate(params, check_mode, S, task, existing, calls) ==
    IF ~check_mode
    THEN IF ~TruthyDict(existing)
         THEN Run(params, check_mode, S, task, existing, calls,
                  "fail_json", "NoExistingDefinition", None, S)
         ELSE LET updated_containers ==
                      IF Truthy(Get(params, "containers"))
                      THEN merge_lists(existing[1].containerDefinitions,
                                       params.containers[1], "name")
                      ELSE << >>
                  updated_volumes ==
                      IF Truthy(Get(params, "volumes"))
                      THEN merge_lists(existing[1].volumes, params.volumes[1], "name")
                      ELSE << >>
                  family == Or(Get(params, "family"), GetField(existing[1], "family"))
                  containers == Or(Some(updated_containers),
                                   GetField(existing[1], "containerDefinitions"))
                  volumes == Or(Some(updated_volumes), GetField(existing[1], "volumes"))
                  r == register_task(S, family, containers, volumes)
                  calls2 == Append(calls,
                              Call("register", <<family, containers, volumes>>))
              IN  IF r.raises # ""
                  THEN Run(params, check_mode, S, task, existing, calls2,
                           "exception", r.raises, None, r.store)
                  ELSE Run(params, check_mode, S, task, existing, calls2,
                           "exit_json", "", Results(TRUE, r.value), r.store)
    ELSE Run(params, check_mode, S, task, existing, calls,
             "exit_json", "", Results(TRUE, None), S)

\* faulty variant: everything that is not ACTIVE counts as already inactive
AlreadyInactive_NotActive(existing) == ~IsActive(existing[1])

\* faulty variant: the status is compared with the wrong spelling
AlreadyInactive_Lowercase(existing) ==
    "status" \in DOMAIN existing[1] /\ existing[1].status = "inactive"

\* line 253: 'status' in existing and existing['status']=="INACTIVE"
AlreadyInactive(existing) ==
    "status" \in DOMAIN existing[1] /\ existing[1].status = "INACTIVE"

\* faulty variant: the definition is described again after it is deregistered
DecideAbsent_Redescribe(params, check_mode, S, task, existing, calls) ==
    IF ~TruthyDict(existing)
    THEN Run(params, check_mode, S, task, existing, calls,
             "exit_json", "", Results(FALSE, None), S)
    ELSE IF AlreadyInactive(existing)
    THEN Run(params, check_mode, S, task, existing, calls,
             "exit_json", "", Results(FALSE, existing), S)
    ELSE IF ~check_mode
    THEN LET r == deregister_task(S, task)
             calls2 == calls \o <<Call("deregister", <<task>>), Call("describe", <<task>>)>>
         IN  IF r.raises # ""
             THEN Run(params, check_mode, S, task, existing, calls2,
                      "exception", r.raises, None, r.store)
             ELSE Run(params, check_mode, S, task, existing, calls2,
                      "exit_json", "", Results(TRUE, r.value), r.store)
    ELSE Run(params, check_mode, S, task, existing, calls,
             "exit_json", "", Results(TRUE, existing), S)

\* faulty variant: check mode is not consulted before deregistering
DecideAbsent_NoCheckMode(params, check_mode, S, task, existing, calls) ==
    IF ~TruthyDict(existing)
    THEN Run(params, check_mode, S, task, existing, calls,
             "exit_json", "", Results(FALSE, None), S)
    ELSE IF AlreadyInactive(existing)
    THEN Run(params, check_mode, S, task, existing, calls,
             "exit_json", "", Results(FALSE, existing), S)
    ELSE LET r == deregister_task(S, task)
             calls2 == Append(calls, Call("deregister", <<task>>))
         IN  IF r.raises # ""
             THEN Run(params, check_mode, S, task, existing, calls2,
                      "exception", r.raises, None, r.store)
             ELSE Run(params, check_mode, S, task, existing, calls2,
                      "exit_json", "", Results(TRUE, existing), r.store)

\* lines 246-258
DecideAbsent(params, check_mode, S, task, existing, calls) ==
    IF ~TruthyDict(existing)
    THEN Run(params, check_mode, S, task, existing, calls,
             "exit_json", "", Results(FALSE, None), S)
    ELSE IF AlreadyInactive(existing)
    THEN Run(params, check_mode, S, task, existing, calls,
             "exit_json", "", Results(FALSE, existing), S)
    ELSE IF ~check_mode
    THEN LET r == deregister_task(S, task)
             calls2 == Append(calls, Call("deregister", <<task>>))
         IN  IF r.raises # ""
             THEN Run(params, check_mode, S, task, existing, calls2,
                      "exception", r.raises, None, r.store)
             ELSE Run(params, check_mode, S, task, existing, calls2,
                      "exit_json", "", Results(TRUE, existing), r.store)
    ELSE Run(params, check_mode, S, task, existing, calls,
             "exit_json", "", Results(TRUE, existing), S)

\* lines 164-260: the whole invocation against store S
main(params, check_mode, S, lao) ==
    LET target == ResolveTarget(params)
        task == target.task_to_describe
    IN  IF target.msg # ""
        THEN Run(params, check_mode, S, None, None, << >>,
                 "fail_json", target.msg, None, S)
        ELSE LET looked == describe_task(S, lao, task)
                 calls == <<Call("connect", << >>), Call("describe", <<task>>)>>
                 existing == looked.value
             IN  IF looked.raises # ""
                 THEN Run(params, check_mode, S, task, None, calls,
                          "exception", looked.raises, None, S)
                 ELSE CASE params.state = "present" ->
                            DecidePresent(params, check_mode, S, task, existing, calls)
                        [] params.state = "update" ->
                            DecideUpdate(params, check_mode, S, task, existing, calls)
                        [] params.state = "absent" ->
                            DecideAbsent(params, check_mode, S, task, existing, calls)

----------------------------------------------------------------------------
(* Inputs *)

svc == <<"svc">>
web == <<"web">>
arn1 == <<"arn:", "svc", ":", "1">>

app1 == [name |-> "app", image |-> "x:1"]
app2 == [name |-> "app", image |-> "x:2"]
sidecar == [name |-> "sidecar", image |-> "y:1"]
db == [name |-> "db", image |-> "z:1"]
data == [name |-> "data"]
logs == [name |-> "logs", host |-> "/var/log"]

\* module.params: every argument of argument_spec
Params(state, arn, family, revision, containers, volumes) ==
    [state |-> state, arn |-> arn, family |-> family, revision |-> revision,
     containers |-> containers, volumes |-> volumes]

\* a dict without the keys K
Without(d, K) == [k \in DOMAIN d \ K |-> d[k]]

\* `present` reads family, containers and volumes, each of which may be
\* missing from params, None or given
PresentParams ==
    {Without(Params("present", None, f, None, c, v), K) :
        f \in {None, Some(svc)},
        c \in {None, Some(<<app1, sidecar>>)},
        v \in {None, Some(<<data>>)},
        K \in SUBSET {"family", "containers", "volumes"}}

\* <<arn, family, revision>> given to `update`
UpdateTargets ==
    {<<None, None, None>>, <<None, Some(svc), None>>, <<None, Some(svc), Some(1)>>,
     <<None, Some(web), None>>, <<Some(arn1), None, None>>,
     <<Some(arn1), Some(web), None>>, <<Some(arn1), None, Some(1)>>}

UpdateParams ==
    {Params("update", t[1], t[2], t[3], c, v) :
        t \in UpdateTargets,
        c \in {None, Some(<< >>), Some(<<app2, db>>)},
        v \in {None, Some(<<logs>>)}}

\* <<arn, family, revision>> given to `absent`
AbsentTargets ==
    {<<None, None, None>>, <<None, Some(svc), None>>, <<None, None, Some(1)>>,
     <<None, Some(svc), Some(1)>>, <<None, Some(svc), Some(2)>>,
     <<Some(arn1), None, None>>, <<Some(arn1), Some(svc), Some(2)>>}

AbsentParams ==
    {Params("absent", t[1], t[2], t[3], None, None) : t \in AbsentTargets}

\* a definition the store may hold before the first invocation; status None
\* is a definition described without a status
StoredDef(revision, status) ==
    LET d == [family |-> svc, revision |-> revision,
              containerDefinitions |-> <<app1, sidecar>>, volumes |-> <<data>>]
    IN  IF status = None THEN d ELSE DictOverlay(d, [status |-> status[1]])

\* the store before the first invocation: empty, one revision of svc in any
\* status, or two revisions of which one is retired
InitStores ==
    {<< >>}
        \cup {<<StoredDef(1, s)>> : s \in {None, Some("ACTIVE"), Some("INACTIVE")}}
        \cup {<<StoredDef(1, Some("ACTIVE")), StoredDef(2, Some("INACTIVE"))>>,
              <<StoredDef(1, Some("INACTIVE")), StoredDef(2, Some("ACTIVE"))>>}

----------------------------------------------------------------------------
(* The state machine: invocations run one after another against the store *)

\* the new invocation repeats the last one: same inputs (dry_run apart), or
\* another `absent`
Repeats(last, params) ==
    /\ last.params.state = params.state
    /\ (last.params = params \/ params.state = "absent")

Init ==
    /\ store \in InitStores
    /\ latestActiveOnly \in BOOLEAN
    /\ inv = None
    /\ prev = None
    /\ runs = 0
    /\ m = None

Invoke(params, check_mode) ==
    /\ runs < MaxInvocations
    /\ LET run == main(params, check_mode, store, latestActiveOnly)
       IN  /\ store' = run.store
           /\ inv' = Some(run)
    /\ prev' = IF inv # None /\ Repeats(inv[1], params) THEN inv ELSE None
    /\ runs' = runs + 1
    /\ UNCHANGED <<latestActiveOnly, m>>

Present == \E params \in PresentParams, check_mode \in BOOLEAN : Invoke(params, check_mode)

Update == \E params \in UpdateParams, check_mode \in BOOLEAN : Invoke(params, check_mode)

Absent == \E params \in AbsentParams, check_mode \in BOOLEAN : Invoke(params, check_mode)

Next == Present \/ Update \/ Absent

Spec == Init /\ [][Next]_vars

----------------------------------------------------------------------------
(* merge_lists on its own: every pair of short lists of keyed records *)

MergeRecords ==
    {[name |-> k, image |-> i] : k \in {"app", "sidecar"}, i \in {"x:1", "x:2"}}
        \cup {[name |-> k, cpu |-> "10"] : k \in {"app", "sidecar"}}

ListsUpTo(len) == UNION {[1..k -> MergeRecords] : k \in 0..len}

InitMerge ==
    /\ store = << >>
    /\ latestActiveOnly = FALSE
    /\ inv = None
    /\ prev = None
    /\ runs = 0
    /\ m \in {Some([items |-> i, updates |-> u, result |-> None]) :
                i \in ListsUpTo(MaxItems), u \in ListsUpTo(MaxUpdates)}

MergeLists ==
    /\ m[1].result = None
    /\ m' = Some([m[1] EXCEPT !.result = Some(merge_lists(m[1].items, m[1].updates, "name"))])
    /\ UNCHANGED <<store, latestActiveOnly, inv, prev, runs>>

NextMerge == MergeLists

SpecMerge == InitMerge /\ [][NextMerge]_vars

----------------------------------------------------------------------------
(* Vocabulary of the properties *)

\* the calls of one operation an invocation issued, in order
CallsOf(run, op) == SelectSeq(run.calls, LAMBDA c : c.op = op)

\* the register and deregister calls an invocation issued, in order
MutatingCalls(run) == SelectSeq(run.calls, LAMBDA c : c.op \in {"register", "deregister"})

\* the invocation reported a result with this changed verdict
Reported(run, changed) ==
    run.outcome = "exit_json" /\ run.results[1].changed = changed

\* a `present` invocation that supplies family and containers
SuppliesPresent(params) ==
    /\ "family" \in DOMAIN params /\ params.family # None
    /\ "containers" \in DOMAIN params /\ params.containers # None

\* the volume list of a `present` invocation: empty when omitted or null
VolumesGiven(params) ==
    IF "volumes" \in DOMAIN params /\ params.volumes # None
    THEN params.volumes ELSE Some(<< >>)

\* C1: a `present` invocation (dry_run false) that supplies family and
\* containers makes no register or deregister call, reports changed = false
\* and returns the definition found when the lookup finds an ACTIVE
\* definition; otherwise it makes exactly one register call, with the
\* caller's family, containers and volumes (empty when omitted or null), no
\* deregister call, and reports changed = true.
PresentDecision ==
    (inv # None /\ inv[1].params.state = "present" /\ ~inv[1].check_mode
        /\ SuppliesPresent(inv[1].params))
    => LET run == inv[1]
       IN  IF run.existing # None /\ IsActive(run.existing[1])
           THEN /\ MutatingCalls(run) = << >>
                /\ Reported(run, FALSE)
                /\ run.results[1].taskdefinition = run.existing
           ELSE /\ MutatingCalls(run) =
                      <<Call("register", <<run.params.family, run.params.containers,
                                           VolumesGiven(run.params)>>)>>
                /\ Reported(run, TRUE)

\* C1 witness: `present` found an INACTIVE definition and registered anew
PresentDecisionWitness ==
    /\ inv # None /\ inv[1].params.state = "present" /\ ~inv[1].check_mode
    /\ SuppliesPresent(inv[1].params)
    /\ inv[1].existing # None /\ ~IsActive(inv[1].existing[1])
    /\ "volumes" \notin DOMAIN inv[1].params
    /\ Len(CallsOf(inv[1], "register")) = 1
    /\ Reported(inv[1], TRUE)

\* the definitions of a family a store holds
OfFamily(S, family) == {i \in DOMAIN S : S[i].family = family}

\* inv re-runs prev, both with dry_run false
RanTwice(state) ==
    /\ prev # None /\ inv # None
    /\ prev[1].params.state = state /\ inv[1].params.state = state
    /\ ~prev[1].check_mode /\ ~inv[1].check_mode
    /\ inv[1].before = prev[1].store

\* C2: from a store with no definition of the family, two consecutive
\* `present` invocations with identical inputs (dry_run false) report
\* changed = true and then changed = false; the second makes no register call
\* and returns an ACTIVE definition equal to the one the first returned.
PresentIdempotent ==
    (RanTwice("present") /\ inv[1].params = prev[1].params
        /\ SuppliesPresent(inv[1].params)
        /\ OfFamily(prev[1].before, inv[1].params.family[1]) = {})
    => /\ Reported(prev[1], TRUE)
       /\ Reported(inv[1], FALSE)
       /\ CallsOf(inv[1], "register") = << >>
       /\ inv[1].results[1].taskdefinition # None
       /\ IsActive(inv[1].results[1].taskdefinition[1])
       /\ inv[1].results[1].taskdefinition = prev[1].results[1].taskdefinition

\* C2 witness: the second of two identical `present` runs on an empty store
PresentIdempotentWitness ==
    /\ RanTwice("present") /\ inv[1].params = prev[1].params
    /\ SuppliesPresent(inv[1].params)
    /\ prev[1].before = << >>
    /\ Len(CallsOf(prev[1], "register")) = 1
    /\ Reported(inv[1], FALSE)

\* C3: an `update` invocation (dry_run false) that finds a definition and
\* supplies a non-empty container list makes exactly one register call, with
\* the caller's family if given and the existing family otherwise, and with
\* containers = merge_lists(existing containers, supplied containers, 'name'),
\* so that every existing container the update does not name is registered
\* unchanged; with a non-empty volume list, volumes are merged likewise;
\* changed is true.
UpdateRegistersMerge ==
    (inv # None /\ inv[1].params.state = "update" /\ ~inv[1].check_mode
        /\ inv[1].existing # None /\ Truthy(inv[1].params.containers))
    => LET run == inv[1]
           found == run.existing[1]
           supplied == run.params.containers[1]
           registered == CallsOf(run, "register")
       IN  /\ Len(registered) = 1
           /\ MutatingCalls(run) = registered
           /\ registered[1].args[1] =
                  IF run.params.family # None THEN run.params.family
                  ELSE Some(found.family)
           /\ registered[1].args[2] =
                  Some(merge_lists(found.containerDefinitions, supplied, "name"))
           /\ \A i \in DOMAIN found.containerDefinitions :
                  (\A j \in DOMAIN supplied :
                       supplied[j].name # found.containerDefinitions[i].name)
                  => /\ i \in DOMAIN registered[1].args[2][1]
                     /\ registered[1].args[2][1][i] = found.containerDefinitions[i]
           /\ Truthy(run.params.volumes)
                  => registered[1].args[3] =
                         Some(merge_lists(found.volumes, run.params.volumes[1], "name"))
           /\ Reported(run, TRUE)

\* C3 witness: scenario C, an update of "app" that keeps "sidecar", registered
\* under a family the caller names
UpdateRegistersMergeWitness ==
    /\ inv # None /\ inv[1].params.state = "update" /\ ~inv[1].check_mode
    /\ inv[1].existing # None
    /\ inv[1].existing[1].containerDefinitions = <<app1, sidecar>>
    /\ inv[1].params.containers = Some(<<app2, db>>)
    /\ inv[1].params.family = Some(web)
    /\ inv[1].params.volumes = Some(<<logs>>)
    /\ CallsOf(inv[1], "register") =
           <<Call("register", <<Some(web), Some(<<app2, sidecar, db>>),
                                Some(<<data, logs>>)>>)>>
    /\ Reported(inv[1], TRUE)

\* the invocation failed a check of its inputs, before any remote call
FailedValidation(run) ==
    run.outcome = "fail_json" /\ run.msg \in {"MissingIdentifier", "MissingRequiredField"}

\* C4: an `update` invocation, with any value of dry_run, whose lookup finds
\* no definition fails with NoExistingDefinition, reports no result and makes
\* no register call.
UpdateRequiresExisting ==
    (inv # None /\ inv[1].params.state = "update"
        /\ CallsOf(inv[1], "describe") # << >> /\ inv[1].outcome # "exception"
        /\ inv[1].existing = None)
    => /\ inv[1].outcome = "fail_json"
       /\ inv[1].msg = "NoExistingDefinition"
       /\ inv[1].results = None
       /\ CallsOf(inv[1], "register") = << >>

\* C5: an `absent` invocation (dry_run false) that passes validation makes no
\* mutating call and reports changed = false when the lookup finds nothing or
\* finds an INACTIVE definition; when it finds a definition that is ACTIVE or
\* has no status it makes exactly one deregister call, with the identifier it
\* looked up, and reports changed = true.
AbsentDecision ==
    (inv # None /\ inv[1].params.state = "absent" /\ ~inv[1].check_mode
        /\ ~FailedValidation(inv[1]))
    => LET run == inv[1]
       IN  /\ Len(CallsOf(run, "describe")) = 1
           /\ IF run.existing = None
              THEN MutatingCalls(run) = << >> /\ Reported(run, FALSE)
              ELSE IF "status" \in DOMAIN run.existing[1]
                        /\ run.existing[1].status = "INACTIVE"
              THEN MutatingCalls(run) = << >> /\ Reported(run, FALSE)
              ELSE /\ MutatingCalls(run) =
                         <<Call("deregister", CallsOf(run, "describe")[1].args)>>
                   /\ Reported(run, TRUE)

\* C5 witness: `absent` found a definition without status and deregistered it
AbsentDecisionWitness ==
    /\ inv # None /\ inv[1].params.state = "absent" /\ ~inv[1].check_mode
    /\ inv[1].existing # None /\ "status" \notin DOMAIN inv[1].existing[1]
    /\ MutatingCalls(inv[1]) = <<Call("deregister", <<Some(svc \o <<":", "1">>)>>)>>
    /\ Reported(inv[1], TRUE)
    /\ store[1].status = "INACTIVE"

\* the two invocations name the same target: they look up the same identifier,
\* or identifiers of the same definition
SameTarget(a, b) ==
    /\ a.task_to_describe # None /\ b.task_to_describe # None
    /\ \/ a.task_to_describe = b.task_to_describe
       \/ /\ Named(b.before, a.task_to_describe[1]) # {}
          /\ Named(b.before, a.task_to_describe[1]) = Named(b.before, b.task_to_describe[1])

\* C6: of two consecutive `absent` invocations against the same target
\* (dry_run false) the first reports changed = true when the target was
\* ACTIVE and changed = false when it was INACTIVE or missing; the second
\* reports changed = false and makes no deregister call.
AbsentIdempotent ==
    (RanTwice("absent") /\ SameTarget(prev[1], inv[1]))
    => /\ (prev[1].existing # None /\ IsActive(prev[1].existing[1]))
              => Reported(prev[1], TRUE)
       /\ (prev[1].existing = None \/ AlreadyInactive(prev[1].existing))
              => Reported(prev[1], FALSE)
       /\ Reported(inv[1], FALSE)
       /\ CallsOf(inv[1], "deregister") = << >>

\* C6 witness: an ACTIVE definition deregistered by its ARN, then asked absent
\* again by family and revision
AbsentIdempotentWitness ==
    /\ RanTwice("absent") /\ SameTarget(prev[1], inv[1])
    /\ prev[1].task_to_describe # inv[1].task_to_describe
    /\ prev[1].existing # None /\ IsActive(prev[1].existing[1])
    /\ Len(CallsOf(prev[1], "deregister")) = 1
    /\ Reported(inv[1], FALSE)

\* position of the first call of an operation in the invocation's calls
FirstCall(run, op) ==
    CHOOSE i \in DOMAIN run.calls :
        run.calls[i].op = op /\ \A j \in 1..(i - 1) : run.calls[j].op # op

\* C7: an invocation makes at most one mutating remote call, never a register
\* and a deregister together, and if it passes validation exactly one
\* describe call, which comes before the mutating call.
OneLookupOneMutation ==
    inv # None
    => /\ Len(MutatingCalls(inv[1])) <= 1
       /\ ~FailedValidation(inv[1])
              => /\ Len(CallsOf(inv[1], "describe")) = 1
                 /\ MutatingCalls(inv[1]) # << >>
                        => FirstCall(inv[1], "describe")
                               < FirstCall(inv[1], MutatingCalls(inv[1])[1].op)

\* C7 witness: an invocation that described and then registered
OneLookupOneMutationWitness ==
    /\ inv # None /\ inv[1].params.state = "update"
    /\ Len(inv[1].calls) = 3
    /\ inv[1].calls[2].op = "describe" /\ inv[1].calls[3].op = "register"
    /\ Len(store) = Len(inv[1].before) + 1

\* C8: an invocation with dry_run true makes no register and no deregister
\* call, and leaves the store as it was.
DryRunMutatesNothing ==
    (inv # None /\ inv[1].check_mode)
    => /\ MutatingCalls(inv[1]) = << >>
       /\ store = inv[1].before

\* C8 witness: a dry run of `absent` on an ACTIVE definition, which reports
\* the change it did not make
DryRunMutatesNothingWitness ==
    /\ inv # None /\ inv[1].check_mode /\ inv[1].params.state = "absent"
    /\ inv[1].existing # None /\ IsActive(inv[1].existing[1])
    /\ Reported(inv[1], TRUE)
    /\ store = inv[1].before

\* C9: the same invocation run with dry_run true and with dry_run false from
\* the same store state gives the same verdict: both report the same changed,
\* or both fail before a mutating call.  (A real run whose mutating call
\* itself raises is left aside.)
DryRunSameVerdict ==
    (prev # None /\ inv # None /\ prev[1].check_mode /\ ~inv[1].check_mode
        /\ inv[1].params = prev[1].params /\ inv[1].before = prev[1].before
        /\ inv[1].outcome # "exception")
    => /\ prev[1].outcome = inv[1].outcome
       /\ prev[1].msg = inv[1].msg
       /\ prev[1].outcome = "exit_json"
              => prev[1].results[1].changed = inv[1].results[1].changed

\* record r is record item overlaid with the fields of record update
IsOverlay(r, item, update) ==
    /\ DOMAIN r = DOMAIN item \cup DOMAIN update
    /\ \A f \in DOMAIN update : r[f] = update[f]
    /\ \A f \in DOMAIN item \ DOMAIN update : r[f] = item[f]

\* positions of the updates records whose key matches no items record
Unmatched(items, updates, key) ==
    {j \in DOMAIN updates : \A i \in DOMAIN items : items[i][key] # updates[j][key]}

\* the t-th smallest member of a set of positions
Nth(positions, t) ==
    CHOOSE j \in positions : Cardinality({q \in positions : q < j}) = t - 1

\* C10: merge_lists(items, updates, key) is, first, one record per items
\* record in items order, the items record overlaid with an updates record of
\* the same key when there is one and the items record itself otherwise, and
\* then the updates records whose key matches no items record, in updates
\* order.
MergeContract ==
    (m # None /\ m[1].result # None)
    => LET items == m[1].items
           updates == m[1].updates
           result == m[1].result[1]
           new == Unmatched(items, updates, "name")
       IN  /\ Len(result) = Len(items) + Cardinality(new)
           /\ \A i \in DOMAIN items :
                  LET same == {j \in DOMAIN updates : updates[j].name = items[i].name}
                  IN  IF same = {} THEN result[i] = items[i]
                      ELSE \E j \in same : IsOverlay(result[i], items[i], updates[j])
           /\ \A t \in 1..Cardinality(new) :
                  result[Len(items) + t] = updates[Nth(new, t)]

\* C10 witness: a merge that overlays two records, one of which keeps a
\* field the update lacks, and appends a record no item matches
MergeContractWitness ==
    /\ m # None /\ m[1].result # None
    /\ m[1].items = <<[name |-> "app", image |-> "x:1"], [name |-> "app", cpu |-> "10"]>>
    /\ m[1].updates = <<[name |-> "sidecar", image |-> "x:1"], [name |-> "app", image |-> "x:2"]>>
    /\ m[1].result = Some(<<[name |-> "app", image |-> "x:2"],
                            [name |-> "app", cpu |-> "10", image |-> "x:2"],
                            [name |-> "sidecar", image |-> "x:1"]>>)

\* the merge has been applied
Merged == m # None /\ m[1].result # None

\* positions of the updates records with the key of items record i
SameKey(items, updates, i) ==
    {j \in DOMAIN updates : updates[j].name = items[i].name}

\* C11 as stated: the result record of an items record carries, for EVERY
\* updates record with the same key, that record's value in each of its
\* fields and the items record's value in the fields it lacks.
MergeOverrideAny ==
    Merged
    => \A i \in DOMAIN m[1].items :
           \A j \in SameKey(m[1].items, m[1].updates, i) :
               IsOverlay(m[1].result[1][i], m[1].items[i], m[1].updates[j])

\* the first of a non-empty set of positions
First(positions) == CHOOSE j \in positions : \A q \in positions : j <= q

\* C11 amended: the result record of an items record carries, for the FIRST
\* updates record with the same key, that record's value in each of its
\* fields and the items record's value in the fields it lacks.
MergeOverrideFirst ==
    Merged
    => \A i \in DOMAIN m[1].items :
           SameKey(m[1].items, m[1].updates, i) # {}
           => IsOverlay(m[1].result[1][i], m[1].items[i],
                        m[1].updates[First(SameKey(m[1].items, m[1].updates, i))])

\* C11 witness: two updates share the key of an item and disagree on a field;
\* the first one decides the result
MergeOverrideFirstWitness ==
    /\ Merged
    /\ m[1].items = <<[name |-> "app", cpu |-> "10"]>>
    /\ m[1].updates = <<[name |-> "app", image |-> "x:1"], [name |-> "app", image |-> "x:2"]>>
    /\ m[1].result = Some(<<[name |-> "app", cpu |-> "10", image |-> "x:1"]>>)

\* C12: the length of merge_lists(items, updates, key) is the length of items
\* plus the number of updates records whose key is the key of no items
\* record, duplicate keys allowed.
MergeAdditive ==
    Merged
    => Len(m[1].result[1]) =
           Len(m[1].items)
               + Cardinality(Unmatched(m[1].items, m[1].updates, "name"))

\* C12 witness: duplicate keys on both sides, two updates appended
MergeAdditiveWitness ==
    /\ Merged
    /\ Len(m[1].items) = 2 /\ m[1].items[1].name = m[1].items[2].name
    /\ Len(m[1].updates) = 2 /\ m[1].updates[1].name = m[1].updates[2].name
    /\ m[1].updates[1].name # m[1].items[1].name
    /\ Len(m[1].result[1]) = 4

\* the invocation ended before any remote call, reporting nothing
FailedBeforeAnyCall(run, msg) ==
    /\ run.outcome = "fail_json" /\ run.msg = msg
    /\ run.calls = << >>
    /\ run.results = None
    /\ run.store = run.before

\* params carries a value for the key
Supplied(params, k) == k \in DOMAIN params /\ params[k] # None

\* C13: an `absent` invocation with no identifier and without both family and
\* revision, and an `update` invocation with neither identifier nor family,
\* fail with MissingIdentifier before any remote call (no connect, describe,
\* register or deregister) and produce no result.
MissingIdentifierFails ==
    (/\ inv # None
     /\ ~Supplied(inv[1].params, "arn")
     /\ \/ /\ inv[1].params.state = "absent"
           /\ ~(Supplied(inv[1].params, "family") /\ Supplied(inv[1].params, "revision"))
        \/ /\ inv[1].params.state = "update"
           /\ ~Supplied(inv[1].params, "family"))
    => /\ FailedBeforeAnyCall(inv[1], "MissingIdentifier")
       /\ store = inv[1].before

\* C13 witness: `absent` given a family but no revision, on a store that
\* holds that family
MissingIdentifierFailsWitness ==
    /\ inv # None /\ inv[1].params.state = "absent"
    /\ inv[1].params.family = Some(svc) /\ inv[1].params.revision = None
    /\ inv[1].params.arn = None
    /\ OfFamily(store, svc) # {}
    /\ FailedBeforeAnyCall(inv[1], "MissingIdentifier")

\* C14: a `present` invocation in which family is not supplied, or the
\* container list is not supplied, fails with MissingRequiredField before any
\* remote call and produces no result.
MissingRequiredFieldFails ==
    (/\ inv # None /\ inv[1].params.state = "present"
     /\ ~(Supplied(inv[1].params, "family") /\ Supplied(inv[1].params, "containers")))
    => FailedBeforeAnyCall(inv[1], "MissingRequiredField")

\* the definition is stored as retired
IsInactive(d) == "status" \in DOMAIN d /\ d.status = "INACTIVE"

\* what registration fixes for good
Identity(d) == <<d.family, d.revision, d.containerDefinitions, d.volumes>>

\* C15: every definition once registered keeps its family, revision,
\* container list and volume list; `update` leaves every definition it found
\* in the store as it was and adds one new revision; the only change an
\* existing definition undergoes is its status becoming INACTIVE, and a
\* retired definition stays retired.
RegisteredIsImmutable ==
    inv # None
    => LET run == inv[1]
           old == run.before
       IN  /\ store = run.store
           /\ Len(store) >= Len(old)
           /\ \A i \in DOMAIN old :
                  /\ Identity(store[i]) = Identity(old[i])
                  /\ \/ store[i] = old[i]
                     \/ /\ ~IsInactive(old[i])
                        /\ store[i] = DictOverlay(old[i], [status |-> "INACTIVE"])
                  /\ IsInactive(old[i]) => IsInactive(store[i])
           /\ run.params.state = "update"
                  => /\ SubSeq(store, 1, Len(old)) = old
                     /\ (run.outcome = "exit_json" /\ ~run.check_mode)
                            => /\ Len(store) = Len(old) + 1
                               /\ \A i \in DOMAIN old :
                                      <<store[i].family, store[i].revision>> #
                                          <<store[Len(store)].family,
                                            store[Len(store)].revision>>
           /\ prev # None
                  => \A i \in DOMAIN prev[1].before :
                         /\ Identity(store[i]) = Identity(prev[1].before[i])
                         /\ IsInactive(prev[1].before[i]) => IsInactive(store[i])

\* C15 witness: two updates in a row of a store holding svc:1 and svc:2; both
\* are still what they were and two revisions have been added
RegisteredIsImmutableWitness ==
    /\ RanTwice("update")
    /\ Len(prev[1].before) = 2
    /\ SubSeq(store, 1, 2) = prev[1].before
    /\ Len(store) = 4
    /\ inv[1].existing # None /\ inv[1].params.containers = Some(<<app2, db>>)

\* the definition an invocation reports
Returned(run) == run.results[1].taskdefinition[1]

\* an `update` (dry_run false) that found a definition
UpdateFound(run) ==
    run.params.state = "update" /\ ~run.check_mode /\ run.existing # None

\* C16 as stated: every `update` (dry_run false) that finds a definition of
\* revision R issues a register call and returns a definition whose revision
\* differs from R.
UpdateNewRevision ==
    (inv # None /\ UpdateFound(inv[1]))
    => /\ Len(CallsOf(inv[1], "register")) = 1
       /\ inv[1].outcome = "exit_json"
       /\ Returned(inv[1]).revision # inv[1].existing[1].revision

\* C16 amended: the definition returned is a new one, never named like the
\* one found, and its revision differs from R whenever it is registered in
\* the family of the definition found.
UpdateNewDefinition ==
    (inv # None /\ UpdateFound(inv[1]))
    => LET found == inv[1].existing[1]
       IN  /\ Len(CallsOf(inv[1], "register")) = 1
           /\ inv[1].outcome = "exit_json"
           /\ Reported(inv[1], TRUE)
           /\ Arn(Returned(inv[1])) # Arn(found)
           /\ Returned(inv[1]) = store[Len(store)]
           /\ Returned(inv[1]).family = found.family
                  => Returned(inv[1]).revision > found.revision

\* C16 witness: an update that supplies neither containers nor volumes
\* registers the content of the revision found under a higher revision
UpdateNewDefinitionWitness ==
    /\ inv # None /\ UpdateFound(inv[1])
    /\ inv[1].params.containers = None /\ inv[1].params.volumes = None
    /\ Returned(inv[1]).family = inv[1].existing[1].family
    /\ Returned(inv[1]).containerDefinitions = inv[1].existing[1].containerDefinitions
    /\ Returned(inv[1]).volumes = inv[1].existing[1].volumes
    /\ Returned(inv[1]).revision > inv[1].existing[1].revision

\* no two records of a list share the key
UniqueKeys(list, key) ==
    \A i, j \in DOMAIN list : list[i][key] = list[j][key] => i = j

\* C17 as stated: merging the same updates into the result of a merge changes
\* nothing, for all items and updates.
MergeIdempotentAll ==
    Merged => merge_lists(m[1].result[1], m[1].updates, "name") = m[1].result[1]

\* C17 amended: merging the same updates into the result of a merge changes
\* nothing when no two records of updates share a key, so a second `update`
\* with the same partial lists registers the content the first one registered.
MergeIdempotentUnique ==
    (Merged /\ UniqueKeys(m[1].updates, "name"))
    => merge_lists(m[1].result[1], m[1].updates, "name") = m[1].result[1]

\* C17 witness: an update that overlays one item with a field it lacks and
\* appends a new record; merged again, nothing changes
MergeIdempotentUniqueWitness ==
    /\ Merged
    /\ m[1].items = <<[name |-> "app", image |-> "x:1"]>>
    /\ m[1].updates = <<[name |-> "app", cpu |-> "10"],
                        [name |-> "sidecar", image |-> "x:2"]>>
    /\ m[1].result[1] = <<[name |-> "app", image |-> "x:1", cpu |-> "10"],
                          [name |-> "sidecar", image |-> "x:2"]>>
    /\ merge_lists(m[1].result[1], m[1].updates, "name") = m[1].result[1]

\* the register call of an `update` that issued one
Registered(run) == CallsOf(run, "register")[1]

\* C18: an `update` (dry_run false) of an existing definition that supplies no
\* container list (absent, null or empty) registers the existing container
\* list unchanged; one that supplies no volume list registers the existing
\* volume list unchanged.
UpdateCarriesExisting ==
    (inv # None /\ UpdateFound(inv[1]))
    => LET run == inv[1]
           found == run.existing[1]
       IN  /\ Len(CallsOf(run, "register")) = 1
           /\ ~Truthy(Get(run.params, "containers"))
                  => Registered(run).args[2] = Some(found.containerDefinitions)
           /\ ~Truthy(Get(run.params, "volumes"))
                  => Registered(run).args[3] = Some(found.volumes)

\* C18 witness: an update that supplies only volumes keeps both containers
UpdateCarriesExistingWitness ==
    /\ inv # None /\ UpdateFound(inv[1])
    /\ inv[1].params.containers \in {None, Some(<< >>)}
    /\ inv[1].params.volumes = Some(<<logs>>)
    /\ inv[1].existing[1].containerDefinitions = <<app1, sidecar>>
    /\ Registered(inv[1]).args[2] = Some(<<app1, sidecar>>)
    /\ Registered(inv[1]).args[3] = Some(<<data, logs>>)
    /\ Returned(inv[1]).containerDefinitions = <<app1, sidecar>>

\* an invocation with dry_run false that completed without failure
Completed(run, state) ==
    run.params.state = state /\ ~run.check_mode /\ run.outcome = "exit_json"

\* the definition an identifier resolves to in the store as it is now
Found(id) == store[Lookup(store, latestActiveOnly, id)]

\* C19: after a `present` invocation (dry_run false) that completes without
\* failure a lookup of its family returns an ACTIVE definition; after an
\* `absent` invocation (dry_run false) that completes without failure a
\* lookup of its target returns nothing or an INACTIVE definition.
DesiredStateReached ==
    inv # None
    => /\ Completed(inv[1], "present")
              => /\ Lookup(store, latestActiveOnly, inv[1].params.family[1]) # 0
                 /\ IsActive(Found(inv[1].params.family[1]))
       /\ Completed(inv[1], "absent")
              => \/ Lookup(store, latestActiveOnly, inv[1].task_to_describe[1]) = 0
                 \/ IsInactive(Found(inv[1].task_to_describe[1]))

\* C19 witness: `present` on a store whose latest revision of the family is
\* retired registers a revision, and the family then resolves to it
DesiredStateReachedWitness ==
    /\ inv # None /\ Completed(inv[1], "present")
    /\ inv[1].existing # None /\ IsInactive(inv[1].existing[1])
    /\ Len(CallsOf(inv[1], "register")) = 1
    /\ Found(svc) = Returned(inv[1])
    /\ IsActive(Found(svc))

\* C20: when no two records of items share a key and no two records of
\* updates share a key, no two records of merge_lists(items, updates, key)
\* share a key.
MergeKeepsKeysUnique ==
    (Merged /\ UniqueKeys(m[1].items, "name") /\ UniqueKeys(m[1].updates, "name"))
    => UniqueKeys(m[1].result[1], "name")

\* C20 witness: one item updated, one record appended, two names in the result
MergeKeepsKeysUniqueWitness ==
    /\ Merged
    /\ m[1].items = <<[name |-> "app", image |-> "x:1"]>>
    /\ m[1].updates = <<[name |-> "sidecar", image |-> "x:1"],
                        [name |-> "app", image |-> "x:2"]>>
    /\ Len(m[1].result[1]) = 2
    /\ UniqueKeys(m[1].result[1], "name")

====
